---- MODULE Spec2Model ----
(***************************************************************************)
(* Model of the concerto-rs parsers: the integer/long property builders    *)
(* (src/parser/property), the namespace and version walkers over the pest  *)
(* parse tree (src/parser/namespace.rs, semver.rs) and the top-level entry *)
(* (src/parser/mod.rs).                                                    *)
(*                                                                         *)
(* Text is a sequence of one-character strings.  A parser is run on the    *)
(* whole input `s` from an offset `p` (the number of characters already    *)
(* consumed) and answers the new offset, or Fail; the remainder a nom      *)
(* parser returns is the suffix of `s` from that offset.  A parser that    *)
(* yields a value answers [pos, val], val a Some on success.  The steps of *)
(* a sequence of parsers are operators that pass what was parsed so far    *)
(* on to the next step.                                                    *)
(*                                                                         *)
(* Option<T> is a sequence of length 0 (None) or 1 (Some).  A number is    *)
(* held as its sign and decimal magnitude, [neg, mag], mag without leading *)
(* zeros: i64 and u32 values exceed the range of the checker's integers,   *)
(* so the width of a type is the range test made when a literal is parsed. *)
(***************************************************************************)
EXTENDS Integers, Sequences, FiniteSets, TLC

VARIABLES pc, call, header, clauses, result, json, text, parses, stdout, decl

vars == <<pc, call, header, clauses, result, json, text, parses, stdout, decl>>

(* ------------------------------ bounds --------------------------------- *)

MaxClauses == 4

MaxParses == 2

(* ------------------------------ values --------------------------------- *)

None == <<>>

Some(x) == <<x>>

Fail == -1

NoMatch == [pos |-> Fail, val |-> None]

Drop(s, n) == SubSeq(s, n + 1, Len(s))

Num(neg, mag) == [neg |-> neg, mag |-> mag]

SpaceChars == {" ", "\t"}

DigitChars == <<"0", "1", "2", "3", "4", "5", "6", "7", "8", "9">>

Digits == {DigitChars[i] : i \in DOMAIN DigitChars}

Letters ==
    {"a", "b", "c", "d", "e", "f", "g", "h", "i", "j", "k", "l", "m",
     "n", "o", "p", "q", "r", "s", "t", "u", "v", "w", "x", "y", "z",
     "A", "B", "C", "D", "E", "F", "G", "H", "I", "J", "K", "L", "M",
     "N", "O", "P", "Q", "R", "S", "T", "U", "V", "W", "X", "Y", "Z"}

DigitVal(c) == (CHOOSE i \in DOMAIN DigitChars : DigitChars[i] = c) - 1

RECURSIVE Span(_, _, _)
(* The number of characters of s from offset p on that lie in S. *)
Span(S, s, p) ==
    IF p < Len(s) /\ s[p + 1] \in S THEN 1 + Span(S, s, p + 1) ELSE 0

(* --------------------------- lexical primitives ------------------------ *)

tag(s, p, kw) ==
    IF p # Fail /\ p + Len(kw) <= Len(s) /\ SubSeq(s, p + 1, p + Len(kw)) = kw
    THEN p + Len(kw) ELSE Fail

space0(s, p) == IF p = Fail THEN Fail ELSE p + Span(SpaceChars, s, p)

space1(s, p) == IF p = Fail \/ space0(s, p) = p THEN Fail ELSE space0(s, p)

(* opt(parser): the offset the parser reached, or the one it started at. *)
opt(q, p) == IF q = Fail THEN p ELSE q

kw_range == <<"r", "a", "n", "g", "e">>

kw_default == <<"d", "e", "f", "a", "u", "l", "t">>

kw_optional == <<"o", "p", "t", "i", "o", "n", "a", "l">>

kw_Integer == <<"I", "n", "t", "e", "g", "e", "r">>

kw_Long == <<"L", "o", "n", "g">>

kw_namespace == <<"n", "a", "m", "e", "s", "p", "a", "c", "e">>

identifier(s, p) ==
    IF p = Fail \/ p >= Len(s) THEN Fail
    ELSE IF s[p + 1] \notin (Letters \cup {"_"}) THEN Fail
    ELSE p + Span(Letters \cup Digits \cup {"_"}, s, p)

RECURSIVE StripZeros(_)
StripZeros(m) ==
    IF Len(m) > 1 /\ Head(m) = 0 THEN StripZeros(Tail(m)) ELSE m

RECURSIVE MagLeq(_, _)
(* m <= n for two magnitudes without leading zeros. *)
MagLeq(m, n) ==
    IF Len(m) # Len(n) THEN Len(m) < Len(n)
    ELSE IF m = <<>> THEN TRUE
    ELSE IF Head(m) # Head(n) THEN Head(m) < Head(n)
    ELSE MagLeq(Tail(m), Tail(n))

I32_MAX == <<2, 1, 4, 7, 4, 8, 3, 6, 4, 7>>

I32_MIN_MAG == <<2, 1, 4, 7, 4, 8, 3, 6, 4, 8>>

I64_MAX == <<9, 2, 2, 3, 3, 7, 2, 0, 3, 6, 8, 5, 4, 7, 7, 5, 8, 0, 7>>

I64_MIN_MAG == <<9, 2, 2, 3, 3, 7, 2, 0, 3, 6, 8, 5, 4, 7, 7, 5, 8, 0, 8>>

U32_MAX == <<4, 2, 9, 4, 9, 6, 7, 2, 9, 5>>

(* The value of n digits of s from offset q on. *)
Magnitude(s, q, n) == StripZeros([i \in 1..n |-> DigitVal(s[q + i])])

signed_fit(e, neg, mag, bound) ==
    IF ~MagLeq(mag, bound) THEN NoMatch
    ELSE [pos |-> e, val |-> Some(Num(neg /\ mag # <<0>>, mag))]

signed_digits(s, q, n, neg, bound) ==
    IF n = 0 THEN NoMatch ELSE signed_fit(q + n, neg, Magnitude(s, q, n), bound)

signed_sign(s, p, sg, max, minmag) ==
    signed_digits(s, p + sg, Span(Digits, s, p + sg), sg = 1 /\ s[p + 1] = "-",
                  IF sg = 1 /\ s[p + 1] = "-" THEN minmag ELSE max)

(* A signed decimal literal that must fit the width: an optional sign,   *)
(* one or more digits; a literal out of range is a mismatch.             *)
signed_value(s, p, max, minmag) ==
    IF p = Fail THEN NoMatch
    ELSE signed_sign(s, p, IF p < Len(s) /\ s[p + 1] \in {"-", "+"} THEN 1 ELSE 0,
                     max, minmag)

integer_value(s, p) == signed_value(s, p, I32_MAX, I32_MIN_MAG)

long_value(s, p) == signed_value(s, p, I64_MAX, I64_MIN_MAG)

(* ------------------------- property header ----------------------------- *)

IntegerPropertyType == "Integer"

LongPropertyType == "Long"

TypeKeyword(ty) == IF ty = IntegerPropertyType THEN kw_Integer ELSE kw_Long

header_done(s, p5, p6, is_array) ==
    IF p6 = Fail THEN NoMatch
    ELSE [pos |-> p6, val |-> Some([name |-> SubSeq(s, p5 + 1, p6), is_array |-> is_array])]

header_name(s, p5, is_array) == header_done(s, p5, identifier(s, p5), is_array)

header_array(s, p3, b3) == header_name(s, space1(s, opt(b3, p3)), b3 # Fail)

(* 'o' ws+ TypeKeyword ('[' ws* ']')? ws+ identifier  =>  (name, is_array) *)
header_type(s, p3) == header_array(s, p3, tag(s, space0(s, tag(s, p3, <<"[">>)), <<"]">>))

primitive_property(ty, s, p) ==
    header_type(s, tag(s, space1(s, tag(s, p, <<"o">>)), TypeKeyword(ty)))

(* --------------------------- ranged clause ----------------------------- *)

value_parser(ty, s, p) ==
    IF ty = IntegerPropertyType THEN integer_value(s, p) ELSE long_value(s, p)

ranged_done(lo, hi, p6) ==
    IF p6 = Fail THEN NoMatch
    ELSE [pos |-> p6, val |-> Some([start |-> lo.val, end |-> hi.val])]

ranged_close(s, lo, p4, hi) == ranged_done(lo, hi, tag(s, space0(s, opt(hi.pos, p4)), <<"]">>))

ranged_upper(s, ty, lo, p4) == ranged_close(s, lo, p4, value_parser(ty, s, p4))

ranged_comma(s, ty, p2, lo) ==
    ranged_upper(s, ty, lo, space0(s, tag(s, space0(s, opt(lo.pos, p2)), <<",">>)))

ranged_lower(s, ty, p2) == ranged_comma(s, ty, p2, value_parser(ty, s, p2))

(* keyword ws* '=' ws* '[' ws* lower? ws* ',' ws* upper? ws* ']' *)
ranged_parser(s, p, keyword, ty) ==
    ranged_lower(s, ty,
                 space0(s, tag(s, space0(s, tag(s, space0(s, tag(s, p, keyword)), <<"=">>)),
                               <<"[">>)))

(* ---------------------------- combinators ------------------------------ *)

(* parser.map(f) for the three clause constructors *)
Default(x) == [kind |-> "Default", x |-> Some(x)]

Domain(x) == [kind |-> "Domain", x |-> Some(x)]

Optional == [kind |-> "Optional", x |-> None]

map_Domain(r) ==
    IF r.pos = Fail THEN NoMatch ELSE [pos |-> r.pos, val |-> Some(Domain(r.val[1]))]

map_Default(r) ==
    IF r.pos = Fail THEN NoMatch ELSE [pos |-> r.pos, val |-> Some(Default(r.val[1]))]

map_Optional(q) == IF q = Fail THEN NoMatch ELSE [pos |-> q, val |-> Some(Optional)]

(* alt((a, b, c)): the first of the three that matches *)
alt(a, b, c) == IF a.pos # Fail THEN a ELSE IF b.pos # Fail THEN b ELSE c

(* ------------------------- integer_property.rs ------------------------- *)

MetaMinOne == 0 + 1

MetaMin == 0

MetaMaxFour == 3 + 1

MetaMax == 3

(* The conversion with the two ends of the range exchanged. *)
IntegerDomainValidator_from_swapped(ranged) == [lower |-> ranged.end, upper |-> ranged.start]

IntegerDomainValidator_from(ranged) == [lower |-> ranged.start, upper |-> ranged.end]

integer_into(r) ==
    IF r.pos = Fail THEN NoMatch
    ELSE [pos |-> r.pos, val |-> Some(IntegerDomainValidator_from(r.val[1]))]

integer_domain_validator(s, p) ==
    integer_into(ranged_parser(s, p, kw_range, IntegerPropertyType))

integer_default_value(s, p) ==
    integer_value(s, space0(s, tag(s, space0(s, tag(s, p, kw_default)), <<"=">>)))

(* alt((domain, default, optional)), each preceded by space1 *)
integer_property_meta(s, p) ==
    alt(map_Domain(integer_domain_validator(s, space1(s, p))),
        map_Default(integer_default_value(s, space1(s, p))),
        map_Optional(tag(s, space1(s, p), kw_optional)))

(* -------------------------- long_property.rs --------------------------- *)

LongDomainValidator_from(ranged) == [lower |-> ranged.start, upper |-> ranged.end]

long_into(r) ==
    IF r.pos = Fail THEN NoMatch
    ELSE [pos |-> r.pos, val |-> Some(LongDomainValidator_from(r.val[1]))]

long_domain_validator(s, p) == long_into(ranged_parser(s, p, kw_range, LongPropertyType))

long_default_value(s, p) ==
    long_value(s, space0(s, tag(s, space0(s, tag(s, p, kw_default)), <<"=">>)))

(* alt((domain, default, optional)), each preceded by space1 *)
long_property_meta(s, p) ==
    alt(map_Domain(long_domain_validator(s, space1(s, p))),
        map_Default(long_default_value(s, space1(s, p))),
        map_Optional(tag(s, space1(s, p), kw_optional)))

(* ------------------------ bounded repetition --------------------------- *)

property_meta(ty, s, p) ==
    IF ty = IntegerPropertyType THEN integer_property_meta(s, p)
    ELSE long_property_meta(s, p)

RECURSIVE fold_many_m_n(_, _, _, _, _, _, _)
RECURSIVE fold_step(_, _, _, _, _, _, _, _)
(* fold_many_m_n(min, max, property_meta, Vec::new, push): the parser is   *)
(* run at most max times; its first mismatch ends the loop, with what was  *)
(* gathered and the offset before the failed attempt when at least min     *)
(* items were gathered, and as a mismatch of the whole otherwise.          *)
fold_many_m_n(min, max, ty, s, p, acc, count) ==
    IF p = Fail THEN NoMatch
    ELSE IF count >= max THEN [pos |-> p, val |-> Some(acc)]
    ELSE fold_step(min, max, ty, s, p, acc, count, property_meta(ty, s, p))

fold_step(min, max, ty, s, p, acc, count, r) ==
    IF r.pos # Fail
    THEN fold_many_m_n(min, max, ty, s, r.pos, Append(acc, r.val[1]), count + 1)
    ELSE IF count < min THEN NoMatch
    ELSE [pos |-> p, val |-> Some(acc)]

(* ---------------------- the property builders -------------------------- *)

Ok(s, p, v) == [ok |-> TRUE, rest |-> Drop(s, p), val |-> v]

Err(s) == [ok |-> FALSE, rest |-> s]

(* The builder with the array flag left at its default. *)
IntegerProperty_new_scalar(property_name, is_array) ==
    [class            |-> "IntegerProperty",
     name             |-> property_name,
     default_value    |-> None,
     domain_validator |-> None,
     is_optional      |-> FALSE,
     is_array         |-> FALSE]

IntegerProperty_new(property_name, is_array) ==
    [class            |-> "IntegerProperty",
     name             |-> property_name,
     default_value    |-> None,
     domain_validator |-> None,
     is_optional      |-> FALSE,
     is_array         |-> is_array]

(* The merge keeping the first clause of a kind instead of the last. *)
integer_apply_meta_first(prop, meta_prop) ==
    IF meta_prop.kind = "Default"
    THEN IF prop.default_value = None
         THEN [prop EXCEPT !.default_value = Some(meta_prop.x[1])] ELSE prop
    ELSE IF meta_prop.kind = "Domain"
         THEN IF prop.domain_validator = None
              THEN [prop EXCEPT !.domain_validator = Some(meta_prop.x[1])] ELSE prop
    ELSE [prop EXCEPT !.is_optional = TRUE]

integer_apply_meta(prop, meta_prop) ==
    IF meta_prop.kind = "Default" THEN [prop EXCEPT !.default_value = Some(meta_prop.x[1])]
    ELSE IF meta_prop.kind = "Domain"
         THEN [prop EXCEPT !.domain_validator = Some(meta_prop.x[1])]
    ELSE [prop EXCEPT !.is_optional = TRUE]

RECURSIVE integer_for_meta_props(_, _)
integer_for_meta_props(prop, meta_props) ==
    IF meta_props = <<>> THEN prop
    ELSE integer_for_meta_props(integer_apply_meta(prop, Head(meta_props)),
                                Tail(meta_props))

(* .map(|((property_name, is_array), meta_props)| ...) *)
integer_property_map(input, head, metas) ==
    IF head.pos = Fail \/ metas.pos = Fail THEN Err(input)
    ELSE Ok(input, metas.pos,
            integer_for_meta_props(
                IntegerProperty_new(head.val[1].name, head.val[1].is_array), metas.val[1]))

(* primitive_property(..).and(fold_many_m_n(0, 3, property_meta, ..)) *)
integer_property_and(input, head) ==
    integer_property_map(input, head,
        fold_many_m_n(MetaMin, MetaMax, IntegerPropertyType, input, head.pos, <<>>, 0))

integer_property(input) ==
    integer_property_and(input, primitive_property(IntegerPropertyType, input, 0))

LongProperty_new(property_name, is_array) ==
    [class            |-> "LongProperty",
     name             |-> property_name,
     default_value    |-> None,
     domain_validator |-> None,
     is_optional      |-> FALSE,
     is_array         |-> is_array]

(* The merge with a range clause rebuilding the record around itself. *)
long_apply_meta_reset(prop, meta_prop) ==
    IF meta_prop.kind = "Default" THEN [prop EXCEPT !.default_value = Some(meta_prop.x[1])]
    ELSE IF meta_prop.kind = "Domain"
         THEN [prop EXCEPT !.domain_validator = Some(meta_prop.x[1]),
                           !.default_value = None]
    ELSE [prop EXCEPT !.is_optional = TRUE]

long_apply_meta(prop, meta_prop) ==
    IF meta_prop.kind = "Default" THEN [prop EXCEPT !.default_value = Some(meta_prop.x[1])]
    ELSE IF meta_prop.kind = "Domain"
         THEN [prop EXCEPT !.domain_validator = Some(meta_prop.x[1])]
    ELSE [prop EXCEPT !.is_optional = TRUE]

RECURSIVE long_for_meta_props(_, _)
long_for_meta_props(prop, meta_props) ==
    IF meta_props = <<>> THEN prop
    ELSE long_for_meta_props(long_apply_meta(prop, Head(meta_props)), Tail(meta_props))

(* The builder made to demand that the clauses reach the end of the input. *)
long_property_map_all_consuming(input, head, metas) ==
    IF head.pos = Fail \/ metas.pos # Len(input) THEN Err(input)
    ELSE Ok(input, metas.pos,
            long_for_meta_props(
                LongProperty_new(head.val[1].name, head.val[1].is_array), metas.val[1]))

(* .map(|((property_name, is_array), meta_props)| ...) *)
long_property_map(input, head, metas) ==
    IF head.pos = Fail \/ metas.pos = Fail THEN Err(input)
    ELSE Ok(input, metas.pos,
            long_for_meta_props(
                LongProperty_new(head.val[1].name, head.val[1].is_array), metas.val[1]))

(* primitive_property(..).and(fold_many_m_n(0, 3, property_meta, ..)) *)
long_property_and(input, head) ==
    long_property_map(input, head,
        fold_many_m_n(MetaMin, MetaMax, LongPropertyType, input, head.pos, <<>>, 0))

long_property(input) ==
    long_property_and(input, primitive_property(LongPropertyType, input, 0))

(* ------------------------ serialized projection ------------------------ *)

(* Display of a signed integer: '-' for a negative value, then its digits. *)
format_num(n) ==
    (IF n.neg THEN <<"-">> ELSE <<>>) \o [i \in 1..Len(n.mag) |-> DigitChars[n.mag[i] + 1]]

(* The string form with the two-bound separator used for a lone lower bound. *)
String_from_IntegerDomainValidator_spaced(value) ==
    IF value.lower = None /\ value.upper = None THEN <<>>
    ELSE IF value.lower # None /\ value.upper # None
         THEN <<"[">> \o format_num(value.lower[1]) \o <<",", " ">>
                     \o format_num(value.upper[1]) \o <<"]">>
    ELSE IF value.lower = None
         THEN <<"[", ",", " ">> \o format_num(value.upper[1]) \o <<"]">>
    ELSE <<"[">> \o format_num(value.lower[1]) \o <<",", " ", "]">>

String_from_IntegerDomainValidator(value) ==
    IF value.lower = None /\ value.upper = None THEN <<>>
    ELSE IF value.lower # None /\ value.upper # None
         THEN <<"[">> \o format_num(value.lower[1]) \o <<",", " ">>
                     \o format_num(value.upper[1]) \o <<"]">>
    ELSE IF value.lower = None
         THEN <<"[", ",", " ">> \o format_num(value.upper[1]) \o <<"]">>
    ELSE <<"[">> \o format_num(value.lower[1]) \o <<",", "]">>

String_from_LongDomainValidator(value) ==
    IF value.lower = None /\ value.upper = None THEN <<>>
    ELSE IF value.lower # None /\ value.upper # None
         THEN <<"[">> \o format_num(value.lower[1]) \o <<",", " ">>
                     \o format_num(value.upper[1]) \o <<"]">>
    ELSE IF value.lower = None
         THEN <<"[", ",", " ">> \o format_num(value.upper[1]) \o <<"]">>
    ELSE <<"[">> \o format_num(value.lower[1]) \o <<",", "]">>

(* The fields a derived Serialize hands to the serializer, in declaration *)
(* order, as <<key, value>> pairs; skip_serializing_if drops a None.      *)
IntegerProperty_serialize(prop) ==
    <<<<"$class", prop.class>>, <<"name", prop.name>>,
      <<"isOptional", prop.is_optional>>, <<"isArray", prop.is_array>>>>
    \o (IF prop.default_value = None THEN <<>>
        ELSE <<<<"default", prop.default_value[1]>>>>)
    \o (IF prop.domain_validator = None THEN <<>>
        ELSE <<<<"range", String_from_IntegerDomainValidator(prop.domain_validator[1])>>>>)

(* The projection without skip_serializing_if on the default field. *)
LongProperty_serialize_no_skip(prop) ==
    <<<<"$class", prop.class>>, <<"name", prop.name>>,
      <<"isOptional", prop.is_optional>>, <<"isArray", prop.is_array>>,
      <<"default", prop.default_value>>>>
    \o (IF prop.domain_validator = None THEN <<>>
        ELSE <<<<"range", String_from_LongDomainValidator(prop.domain_validator[1])>>>>)

LongProperty_serialize(prop) ==
    <<<<"$class", prop.class>>, <<"name", prop.name>>,
      <<"isOptional", prop.is_optional>>, <<"isArray", prop.is_array>>>>
    \o (IF prop.default_value = None THEN <<>>
        ELSE <<<<"default", prop.default_value[1]>>>>)
    \o (IF prop.domain_validator = None THEN <<>>
        ELSE <<<<"range", String_from_LongDomainValidator(prop.domain_validator[1])>>>>)

(* --------------------------- concerto.pest ----------------------------- *)

(* A pair of the parse tree: the rule matched, the text it spans and the  *)
(* pairs inside it.                                                       *)
Pair(rule, s, a, b, inner) == [rule |-> rule, str |-> SubSeq(s, a + 1, b), inner |-> inner]

Matched(e, pair) == [pos |-> e, val |-> Some(pair)]

version_part_end(s, p, e) ==
    IF e = p THEN NoMatch ELSE Matched(e, Pair("VersionPart", s, p, e, <<>>))

pest_VersionPart(s, p) ==
    IF p = Fail THEN NoMatch ELSE version_part_end(s, p, p + Span(Digits, s, p))

version_shape(s, p, rule, e, inner) ==
    Matched(e, Pair("Version", s, p, e, <<Pair(rule, s, p, e, inner)>>))

version_patch(s, p, n1, n2, n3) ==
    IF n3.pos # Fail
    THEN version_shape(s, p, "MajorMinorPatchVersion", n3.pos, n1.val \o n2.val \o n3.val)
    ELSE IF n2.pos # Fail
         THEN version_shape(s, p, "MajorMinorVersion", n2.pos, n1.val \o n2.val)
    ELSE IF n1.pos # Fail THEN version_shape(s, p, "MajorVersion", n1.pos, n1.val)
    ELSE NoMatch

version_minor(s, p, n1, n2) ==
    version_patch(s, p, n1, n2, pest_VersionPart(s, tag(s, n2.pos, <<".">>)))

version_major(s, p, n1) == version_minor(s, p, n1, pest_VersionPart(s, tag(s, n1.pos, <<".">>)))

(* major.minor.patch | major.minor | major, the longest shape first *)
pest_Version(s, p) == version_major(s, p, pest_VersionPart(s, p))

tag_end(rule, s, p, t, e) ==
    IF e = t THEN [pos |-> p, val |-> None]
    ELSE Matched(e, Pair(rule, s, t, e, <<Pair("Identifier", s, t, e, <<>>)>>))

tag_marker(rule, chars, s, p, t) ==
    IF t = Fail THEN [pos |-> p, val |-> None]
    ELSE tag_end(rule, s, p, t, t + Span(chars, s, t))

(* (marker tag)?: the pair of the rule, holding the tag, when it is written *)
pest_Tag(rule, marker, chars, s, p) ==
    IF p = Fail THEN NoMatch ELSE tag_marker(rule, chars, s, p, tag(s, p, <<marker>>))

semver_build(s, p, v, pr, bd) ==
    IF v.pos = Fail THEN NoMatch
    ELSE Matched(bd.pos, Pair("SemVer", s, p, bd.pos, v.val \o pr.val \o bd.val))

semver_prerelease(s, p, v, pr) ==
    semver_build(s, p, v, pr, pest_Tag("Build", "+", Letters \cup Digits \cup {"-"}, s, pr.pos))

semver_version(s, p, v) ==
    semver_prerelease(s, p, v, pest_Tag("Prerelease", "-", Letters \cup Digits, s, v.pos))

(* Version ('-' prerelease)? ('+' build)? *)
pest_SemVer(s, p) == semver_version(s, p, pest_Version(s, p))

RECURSIVE pest_segments(_, _)
RECURSIVE segments_next(_, _, _)
(* The end of ('.' identifier)* from offset p. *)
pest_segments(s, p) == segments_next(s, p, identifier(s, tag(s, p, <<".">>)))

segments_next(s, p, q) == IF q = Fail THEN p ELSE pest_segments(s, q)

qualified_name_end(s, p, e) == Matched(e, Pair("QualifiedName", s, p, e, <<>>))

qualified_name_head(s, p, q) ==
    IF q = Fail THEN NoMatch ELSE qualified_name_end(s, p, pest_segments(s, q))

pest_QualifiedName(s, p) == qualified_name_head(s, p, identifier(s, p))

qualified_namespace_version(s, p, qn, sv) ==
    IF sv.pos # Fail
    THEN Matched(sv.pos,
                 Pair("QualifiedNamespace", s, p, sv.pos,
                      <<Pair("VersionedQualifiedNamespace", s, p, sv.pos, qn.val \o sv.val)>>))
    ELSE IF qn.pos # Fail
         THEN Matched(qn.pos, Pair("QualifiedNamespace", s, p, qn.pos, qn.val))
    ELSE NoMatch

qualified_namespace_name(s, p, qn) ==
    qualified_namespace_version(s, p, qn, pest_SemVer(s, tag(s, qn.pos, <<"@">>)))

(* VersionedQualifiedNamespace | QualifiedName *)
pest_QualifiedNamespace(s, p) == qualified_namespace_name(s, p, pest_QualifiedName(s, p))

namespace_keyword(s, p, q) ==
    IF q.pos = Fail THEN NoMatch ELSE Matched(q.pos, Pair("Namespace", s, p, q.pos, q.val))

(* 'namespace' ws+ QualifiedNamespace *)
pest_Namespace(s, p) ==
    namespace_keyword(s, p, pest_QualifiedNamespace(s, space1(s, tag(s, p, kw_namespace))))

model_eoi(s, p, n) ==
    IF n.pos = Fail \/ n.pos # Len(s) THEN NoMatch
    ELSE Matched(n.pos, Pair("Model", s, p, n.pos,
                             n.val \o <<Pair("EOI", s, n.pos, n.pos, <<>>)>>))

(* SOI Namespace EOI *)
pest_Model(s, p) == model_eoi(s, p, pest_Namespace(s, p))

pairs_of(r) ==
    IF r.pos = Fail THEN [ok |-> FALSE, pairs |-> <<>>] ELSE [ok |-> TRUE, pairs |-> r.val]

(* ConcertoParser::parse(rule, input): the pairs matched, or an error. *)
ConcertoParser_parse(rule, input) ==
    IF rule = "Model" THEN pairs_of(pest_Model(input, 0))
    ELSE IF rule = "Namespace" THEN pairs_of(pest_Namespace(input, 0))
    ELSE pairs_of(pest_SemVer(input, 0))

(* ------------------------------ semver.rs ------------------------------ *)

Zero == Num(FALSE, <<0>>)

u32_fit(mag) == IF ~MagLeq(mag, U32_MAX) THEN None ELSE Some(Num(FALSE, mag))

u32_digits(str, sg, n) ==
    IF n = 0 \/ Span(Digits, str, sg) # n THEN None ELSE u32_fit(Magnitude(str, sg, n))

u32_sign(str, sg) == u32_digits(str, sg, Len(str) - sg)

(* str::parse::<u32>(): an optional '+', then digits, within the width. *)
parse_u32(str) == u32_sign(str, IF str # <<>> /\ Head(str) = "+" THEN 1 ELSE 0)

(* The fallback that keeps the largest value of the width. *)
unwrap_or_max(o, default) == IF o = None THEN Num(FALSE, U32_MAX) ELSE o[1]

unwrap_or(o, default) == IF o = None THEN default ELSE o[1]

SemVer_default ==
    [major |-> Zero, minor |-> Zero, patch |-> Zero, prerelease |-> <<>>, build |-> <<>>]

(* version.into_inner().map(|r| r.as_str().parse().unwrap_or(0)).collect() *)
version_parts(version) ==
    [i \in DOMAIN version.inner |-> unwrap_or(parse_u32(version.inner[i].str), Zero)]

(* The assignment with the second written component stored as the patch. *)
semver_set_version_shifted(semver, rule, ver) ==
    IF rule = "MajorMinorPatchVersion"
    THEN [semver EXCEPT !.major = ver[1], !.minor = ver[2], !.patch = ver[3]]
    ELSE IF rule = "MajorMinorVersion"
         THEN [semver EXCEPT !.major = ver[1], !.patch = ver[2]]
    ELSE [semver EXCEPT !.major = ver[1]]

semver_set_version(semver, rule, ver) ==
    IF rule = "MajorMinorPatchVersion"
    THEN [semver EXCEPT !.major = ver[1], !.minor = ver[2], !.patch = ver[3]]
    ELSE IF rule = "MajorMinorVersion"
         THEN [semver EXCEPT !.major = ver[1], !.minor = ver[2]]
    ELSE [semver EXCEPT !.major = ver[1]]

semver_part(semver, part) ==
    IF part.rule = "Version"
    THEN IF part.inner = <<>> THEN semver
         ELSE semver_set_version(semver, part.inner[1].rule, version_parts(part.inner[1]))
    ELSE IF part.rule = "Prerelease"
         THEN IF part.inner = <<>> THEN semver
              ELSE [semver EXCEPT !.prerelease = part.inner[1].str]
    ELSE IF part.inner = <<>> THEN semver
         ELSE [semver EXCEPT !.build = part.inner[1].str]

RECURSIVE semver_for_parts(_, _)
semver_for_parts(semver, parts) ==
    IF parts = <<>> THEN semver
    ELSE semver_for_parts(semver_part(semver, Head(parts)), Tail(parts))

semver(pair) == semver_for_parts(SemVer_default, pair.inner)

(* ----------------------------- namespace.rs ---------------------------- *)

Namespace_default == [name |-> <<>>, version |-> None]

namespace_part(ns, part) ==
    IF part.rule = "QualifiedName" THEN [ns EXCEPT !.name = part.str]
    ELSE [ns EXCEPT !.version = Some(semver(part))]

RECURSIVE namespace_for_parts(_, _)
namespace_for_parts(ns, parts) ==
    IF parts = <<>> THEN ns
    ELSE namespace_for_parts(namespace_part(ns, Head(parts)), Tail(parts))

(* The walk naming the namespace by the text of the whole declaration. *)
namespace_match_whole(namespace_declaration) ==
    IF namespace_declaration.rule = "VersionedQualifiedNamespace"
    THEN [namespace_for_parts(Namespace_default, namespace_declaration.inner)
             EXCEPT !.name = namespace_declaration.str]
    ELSE [Namespace_default EXCEPT !.name = namespace_declaration.str]

namespace_match(namespace_declaration) ==
    IF namespace_declaration.rule = "VersionedQualifiedNamespace"
    THEN namespace_for_parts(Namespace_default, namespace_declaration.inner)
    ELSE [Namespace_default EXCEPT !.name = namespace_declaration.str]

namespace(pair) == namespace_match(pair.inner[1].inner[1])

(* -------------------------------- mod.rs ------------------------------- *)

(* struct Model {}: a record without fields. *)
Model_default == <<>>

(* Debug of a &str made of identifier, '.', '@', digit and tag characters. *)
debug_str(str) == <<"\"">> \o str \o <<"\"">>

println_part(part) ==
    IF part.rule = "Namespace" /\ part.inner # <<>>
    THEN <<debug_str(part.inner[1].str)>> ELSE <<>>

RECURSIVE parse_for_parts(_)
(* What the loop over the Model pair's parts prints. *)
parse_for_parts(parts) ==
    IF parts = <<>> THEN <<>>
    ELSE println_part(Head(parts)) \o parse_for_parts(Tail(parts))

(* The entry with the grammar's error replaced by the default Model. *)
parse_pairs_or_default(pairs) ==
    IF ~pairs.ok THEN [ok |-> TRUE, val |-> Model_default, out |-> <<>>]
    ELSE [ok  |-> TRUE,
          val |-> Model_default,
          out |-> IF pairs.pairs = <<>> THEN <<>>
                  ELSE parse_for_parts(pairs.pairs[1].inner)]

parse_pairs(pairs) ==
    IF ~pairs.ok THEN [ok |-> FALSE, out |-> <<>>]
    ELSE [ok  |-> TRUE,
          val |-> Model_default,
          out |-> IF pairs.pairs = <<>> THEN <<>>
                  ELSE parse_for_parts(pairs.pairs[1].inner)]

parse(input) == parse_pairs(ConcertoParser_parse("Model", input))

(* ------------------------------ inputs --------------------------------- *)

(* Property headers as written, each with what its author meant by it:    *)
(* the type keyword, the name, the array marker, and whether it follows   *)
(* the header grammar.                                                    *)
Headers ==
    { [text |-> <<"o", " ", "I", "n", "t", "e", "g", "e", "r", " ", "f", "o", "o">>,
       ty |-> "Integer", name |-> <<"f", "o", "o">>, is_array |-> FALSE, ok |-> TRUE],
      [text |-> <<"o", " ", "I", "n", "t", "e", "g", "e", "r", "[", "\t", "]", " ", "f", "o", "o">>,
       ty |-> "Integer", name |-> <<"f", "o", "o">>, is_array |-> TRUE, ok |-> TRUE],
      [text |-> <<"o", " ", "L", "o", "n", "g", " ", "b", "a", "z">>,
       ty |-> "Long", name |-> <<"b", "a", "z">>, is_array |-> FALSE, ok |-> TRUE],
      [text |-> <<"o", " ", "\t", "L", "o", "n", "g", "[", "]", " ", "b", "_", "1">>,
       ty |-> "Long", name |-> <<"b", "_", "1">>, is_array |-> TRUE, ok |-> TRUE],
      [text |-> <<"o", " ", "I", "n", "t", "e", "g", "e", "r", " ", "[", "]", " ", "f", "o", "o">>,
       ty |-> "Integer", name |-> <<"f", "o", "o">>, is_array |-> TRUE, ok |-> FALSE],
      [text |-> <<"o", " ", "L", "o", "n", "g", "[", " ", " ", "]", "b", "a", "z">>,
       ty |-> "Long", name |-> <<"b", "a", "z">>, is_array |-> TRUE, ok |-> FALSE] }

NoHeader == [text |-> <<>>, ty |-> "", name |-> <<>>, is_array |-> FALSE, ok |-> FALSE]

(* Meta-clauses as written, leading whitespace included, each with its    *)
(* kind, the values its author wrote and, for a range, the string form    *)
(* expected of it; "bad" is no clause at all.                             *)
Clauses ==
    { [text |-> <<" ", " ", " ", " ", "r", "a", "n", "g", "e", " ", " ", " ", "=", " ", "[", " ", "0", " ", ",", " ", "1", "0", " ", " ", "]">>, kind |-> "range", value |-> None,
       lower |-> Some(Num(FALSE, <<0>>)), upper |-> Some(Num(FALSE, <<1, 0>>)),
       shown |-> <<"[", "0", ",", " ", "1", "0", "]">>],
      [text |-> <<" ", "r", "a", "n", "g", "e", "=", "[", ",", "1", "0", "0", "]">>, kind |-> "range", value |-> None,
       lower |-> None, upper |-> Some(Num(FALSE, <<1, 0, 0>>)),
       shown |-> <<"[", ",", " ", "1", "0", "0", "]">>],
      [text |-> <<" ", "\t", "r", "a", "n", "g", "e", "=", "[", "-", "5", ",", "]">>, kind |-> "range", value |-> None,
       lower |-> Some(Num(TRUE, <<5>>)), upper |-> None,
       shown |-> <<"[", "-", "5", ",", "]">>],
      [text |-> <<" ", "d", "e", "f", "a", "u", "l", "t", "=", "4", "2">>, kind |-> "default",
       value |-> Some(Num(FALSE, <<4, 2>>)), lower |-> None, upper |-> None,
       shown |-> <<>>],
      [text |-> <<" ", "\t", "d", "e", "f", "a", "u", "l", "t", " ", " ", "=", " ", " ", " ", "-", "4", "2">>, kind |-> "default",
       value |-> Some(Num(TRUE, <<4, 2>>)), lower |-> None, upper |-> None,
       shown |-> <<>>],
      [text |-> <<" ", "o", "p", "t", "i", "o", "n", "a", "l">>, kind |-> "optional",
       value |-> None, lower |-> None, upper |-> None, shown |-> <<>>],
      [text |-> <<" ", "d", "e", "f", "a", "u", "l", "t", "=", "'", "H", "e", "l", "l", "o", "'">>, kind |-> "bad",
       value |-> None, lower |-> None, upper |-> None, shown |-> <<>>] }

RECURSIVE Flatten(_)
Flatten(cs) == IF cs = <<>> THEN <<>> ELSE Head(cs).text \o Flatten(Tail(cs))

(* The text handed to a property parser. *)
Input == header.text \o Flatten(clauses)

(* Namespace declarations as written: the qualified name and, when one is *)
(* written, the version after '@' with the fields its author meant.       *)
NsNames == {<<"a">>, <<"c", "o", "m", ".", "f", "o", "o", ".", "b", "a", "r">>, <<"c", "o", "m", ".", "e", "x", "a", "m", "p", "l", "e", ".", "f", "o", "o">>}

N1(d) == Num(FALSE, <<d>>)

N2(d, e) == Num(FALSE, <<d, e>>)

(* One more than u32::MAX: a component the grammar accepts and the width *)
(* does not hold.                                                        *)
TooBig == Num(FALSE, <<4, 2, 9, 4, 9, 6, 7, 2, 9, 6>>)

(* The numeric components written, in one of the three shapes. *)
NsComponents ==
    { <<N2(1, 2)>>,
      <<N2(1, 2), N2(1, 3)>>,
      <<N2(1, 2), N2(1, 3), N2(1, 4)>>,
      <<N1(1), N1(0), N2(4, 2)>>,
      <<TooBig>>,
      <<N1(1), TooBig>>,
      <<N1(1), N1(2), TooBig>>,
      <<TooBig, N1(1), Num(FALSE, U32_MAX)>> }

NsTags == {<<>>, <<"p", "r", "e", "1", "2", "3">>}

NsBuilds == {<<>>, <<"a">>}

RECURSIVE Dotted(_)
Dotted(c) ==
    IF Len(c) = 1 THEN format_num(c[1])
    ELSE format_num(Head(c)) \o <<".">> \o Dotted(Tail(c))

VersionText(c, pre, bd) ==
    Dotted(c) \o (IF pre = <<>> THEN <<>> ELSE <<"-">> \o pre)
              \o (IF bd = <<>> THEN <<>> ELSE <<"+">> \o bd)

(* Versions as written, each with the fields its author wrote: a         *)
(* component that is not written is 0, a tag that is not written empty.  *)
NsVersions ==
    { [text       |-> VersionText(c, pre, bd),
       major      |-> c[1],
       minor      |-> IF Len(c) >= 2 THEN c[2] ELSE Num(FALSE, <<0>>),
       patch      |-> IF Len(c) >= 3 THEN c[3] ELSE Num(FALSE, <<0>>),
       prerelease |-> pre,
       build      |-> bd] : c \in NsComponents, pre \in NsTags, bd \in NsBuilds }

(* The versions written after '@' in the namespace declarations. *)
DeclVersions == {v \in NsVersions : v.prerelease = <<>>}

(* ok: the text is a whole model, one declaration up to the end of input. *)
Decls ==
    { [text |-> kw_namespace \o <<" ">> \o n, name |-> n, ver |-> None, ok |-> TRUE] :
        n \in NsNames }
    \cup
    { [text |-> kw_namespace \o <<" ", "\t">> \o n \o <<"@">> \o v.text,
       name |-> n, ver |-> Some(v), ok |-> TRUE] : n \in NsNames, v \in DeclVersions }
    \cup
    { [text |-> <<"n", "a", "m", "e", "s", "p", "a", "c", "e">>, name |-> <<>>, ver |-> None, ok |-> FALSE],
      [text |-> <<"n", "a", "m", "e", "s", "p", "a", "c", "e", "a">>, name |-> <<>>, ver |-> None, ok |-> FALSE],
      [text |-> <<"n", "a", "m", "e", "s", "p", "a", "c", "e", " ", "a", ".">>, name |-> <<"a">>, ver |-> None, ok |-> FALSE],
      [text |-> <<"n", "a", "m", "e", "s", "p", "a", "c", "e", " ", "a", "@">>, name |-> <<"a">>, ver |-> None, ok |-> FALSE],
      [text |-> <<"o", " ", "I", "n", "t", "e", "g", "e", "r", " ", "f", "o", "o">>, name |-> <<>>, ver |-> None, ok |-> FALSE] }

NoDecl == [text |-> <<>>, name |-> <<>>, ver |-> None, ok |-> FALSE]

(* Bounds of validators handed to String::from directly, each with the   *)
(* decimal text expected of it.                                           *)
BoundCases ==
    { [b |-> None, shown |-> <<>>],
      [b |-> Some(Num(FALSE, <<0>>)), shown |-> <<"0">>],
      [b |-> Some(Num(TRUE, <<4, 2>>)), shown |-> <<"-", "4", "2">>],
      [b |-> Some(Num(FALSE, <<1, 0, 0>>)), shown |-> <<"1", "0", "0">>],
      [b |-> Some(Num(TRUE, I32_MIN_MAG)), shown |-> <<"-", "2", "1", "4", "7", "4", "8", "3", "6", "4", "8">>],
      [b |-> Some(Num(FALSE, I32_MAX)), shown |-> <<"2", "1", "4", "7", "4", "8", "3", "6", "4", "7">>] }

LongBoundCases ==
    BoundCases \cup
    { [b |-> Some(Num(FALSE, I64_MAX)), shown |-> <<"9", "2", "2", "3", "3", "7", "2", "0", "3", "6", "8", "5", "4", "7", "7", "5", "8", "0", "7">>],
      [b |-> Some(Num(TRUE, I64_MIN_MAG)), shown |-> <<"-", "9", "2", "2", "3", "3", "7", "2", "0", "3", "6", "8", "5", "4", "7", "7", "5", "8", "0", "8">>] }

Bounds == {c.b : c \in BoundCases}

LongBounds == {c.b : c \in LongBoundCases}

(* ---------------------------- state machine ---------------------------- *)

NoResult == [ok |-> FALSE, rest |-> <<>>]

Init ==
    /\ pc = "idle"
    /\ call = ""
    /\ header = NoHeader
    /\ clauses = <<>>
    /\ result = NoResult
    /\ json = <<>>
    /\ text = <<>>
    /\ parses = <<>>
    /\ stdout = <<>>
    /\ decl = NoDecl

WriteHeader(h) ==
    /\ pc = "idle"
    /\ pc' = "compose"
    /\ header' = h
    /\ UNCHANGED <<call, clauses, result, json, text, parses, stdout, decl>>

WriteClause(c) ==
    /\ pc = "compose"
    /\ Len(clauses) < MaxClauses
    /\ clauses' = Append(clauses, c)
    /\ UNCHANGED <<pc, call, header, result, json, text, parses, stdout, decl>>

CallIntegerProperty ==
    /\ pc = "compose"
    /\ pc' = "parsed"
    /\ call' = "integer_property"
    /\ result' = integer_property(Input)
    /\ UNCHANGED <<header, clauses, json, text, parses, stdout, decl>>

CallLongProperty ==
    /\ pc = "compose"
    /\ pc' = "parsed"
    /\ call' = "long_property"
    /\ result' = long_property(Input)
    /\ UNCHANGED <<header, clauses, json, text, parses, stdout, decl>>

Serialize ==
    /\ pc = "parsed"
    /\ result.ok
    /\ pc' = "serialized"
    /\ json' = IF call = "integer_property" THEN IntegerProperty_serialize(result.val)
               ELSE LongProperty_serialize(result.val)
    /\ UNCHANGED <<call, header, clauses, result, text, parses, stdout, decl>>

FormatIntegerDomainValidator(lo, hi) ==
    /\ pc = "idle"
    /\ pc' = "formatted"
    /\ call' = "String::from(&IntegerDomainValidator)"
    /\ result' = [ok |-> TRUE, rest |-> <<>>, val |-> [lower |-> lo, upper |-> hi]]
    /\ text' = String_from_IntegerDomainValidator([lower |-> lo, upper |-> hi])
    /\ UNCHANGED <<header, clauses, json, parses, stdout, decl>>

FormatLongDomainValidator(lo, hi) ==
    /\ pc = "idle"
    /\ pc' = "formatted"
    /\ call' = "String::from(&LongDomainValidator)"
    /\ result' = [ok |-> TRUE, rest |-> <<>>, val |-> [lower |-> lo, upper |-> hi]]
    /\ text' = String_from_LongDomainValidator([lower |-> lo, upper |-> hi])
    /\ UNCHANGED <<header, clauses, json, parses, stdout, decl>>

(* namespace() on the pair ConcertoParser::parse(Rule::Namespace, _) gives. *)
CallNamespace(d) ==
    /\ pc = "idle"
    /\ ConcertoParser_parse("Namespace", d.text).ok
    /\ pc' = "namespace"
    /\ call' = "namespace"
    /\ decl' = d
    /\ result' = [ok |-> TRUE, rest |-> <<>>,
                  val |-> namespace(ConcertoParser_parse("Namespace", d.text).pairs[1])]
    /\ UNCHANGED <<header, clauses, json, text, parses, stdout>>

(* semver() on the pair ConcertoParser::parse(Rule::SemVer, _) gives. *)
CallSemver(v) ==
    /\ pc = "idle"
    /\ ConcertoParser_parse("SemVer", v.text).ok
    /\ pc' = "semver"
    /\ call' = "semver"
    /\ decl' = [text |-> v.text, name |-> <<>>, ver |-> Some(v), ok |-> TRUE]
    /\ result' = [ok |-> TRUE, rest |-> <<>>,
                  val |-> semver(ConcertoParser_parse("SemVer", v.text).pairs[1])]
    /\ UNCHANGED <<header, clauses, json, text, parses, stdout>>

(* parse(): one more top-level parse of this run. *)
CallParse(d) ==
    /\ pc \in {"idle", "model"}
    /\ Len(parses) < MaxParses
    /\ pc' = "model"
    /\ call' = "parse"
    /\ parses' = Append(parses, [decl |-> d, result |-> parse(d.text)])
    /\ stdout' = stdout \o parse(d.text).out
    /\ UNCHANGED <<header, clauses, result, json, text, decl>>

Next ==
    \/ \E h \in Headers : WriteHeader(h)
    \/ \E c \in Clauses : WriteClause(c)
    \/ CallIntegerProperty
    \/ CallLongProperty
    \/ Serialize
    \/ \E lo \in Bounds, hi \in Bounds : FormatIntegerDomainValidator(lo, hi)
    \/ \E lo \in LongBounds, hi \in LongBounds : FormatLongDomainValidator(lo, hi)
    \/ \E d \in Decls : CallNamespace(d)
    \/ \E v \in NsVersions : CallSemver(v)
    \/ \E d \in Decls : CallParse(d)

Spec == Init /\ [][Next]_vars

(* ------------------- clauses at the grammar's edges -------------------- *)

I32Max == Num(FALSE, I32_MAX)

I32Min == Num(TRUE, I32_MIN_MAG)

(* Clauses whose literals lie at and just beyond the ends of the 32-bit  *)
(* range, a range clause with neither bound written, and the clauses     *)
(* that carry no literal.                                                *)
EdgeClauses ==
    { [text |-> <<" ", "d", "e", "f", "a", "u", "l", "t", "=", "2", "1", "4", "7", "4", "8", "3", "6", "4", "7">>, kind |-> "default",
       value |-> Some(I32Max), lower |-> None, upper |-> None, shown |-> <<>>],
      [text |-> <<" ", "d", "e", "f", "a", "u", "l", "t", "=", "2", "1", "4", "7", "4", "8", "3", "6", "4", "8">>, kind |-> "default",
       value |-> Some(Num(FALSE, I32_MIN_MAG)), lower |-> None, upper |-> None,
       shown |-> <<>>],
      [text |-> <<" ", "r", "a", "n", "g", "e", "=", "[", "-", "2", "1", "4", "7", "4", "8", "3", "6", "4", "8", ",", "2", "1", "4", "7", "4", "8", "3", "6", "4", "7", "]">>, kind |-> "range",
       value |-> None, lower |-> Some(I32Min), upper |-> Some(I32Max),
       shown |-> <<"[", "-", "2", "1", "4", "7", "4", "8", "3", "6", "4", "8", ",", " ", "2", "1", "4", "7", "4", "8", "3", "6", "4", "7", "]">>],
      [text |-> <<" ", "r", "a", "n", "g", "e", "=", "[", "-", "2", "1", "4", "7", "4", "8", "3", "6", "4", "9", ",", "]">>, kind |-> "range",
       value |-> None, lower |-> Some(Num(TRUE, <<2, 1, 4, 7, 4, 8, 3, 6, 4, 9>>)),
       upper |-> None, shown |-> <<"[", "-", "2", "1", "4", "7", "4", "8", "3", "6", "4", "9", ",", "]">>],
      [text |-> <<" ", "r", "a", "n", "g", "e", "=", "[", ",", "]">>, kind |-> "range",
       value |-> None, lower |-> None, upper |-> None, shown |-> <<>>],
      [text |-> <<" ", "o", "p", "t", "i", "o", "n", "a", "l">>, kind |-> "optional",
       value |-> None, lower |-> None, upper |-> None, shown |-> <<>>],
      [text |-> <<" ", "d", "e", "f", "a", "u", "l", "t", "=", "'", "H", "e", "l", "l", "o", "'">>, kind |-> "bad",
       value |-> None, lower |-> None, upper |-> None, shown |-> <<>>] }

(* The property parsers run on declarations written with these clauses. *)
NextEdges ==
    \/ \E h \in Headers : WriteHeader(h)
    \/ \E c \in EdgeClauses : WriteClause(c)
    \/ CallIntegerProperty
    \/ CallLongProperty
    \/ Serialize

SpecEdges == Init /\ [][NextEdges]_vars

(* --------------------- what the written input means -------------------- *)

Min(a, b) == IF a < b THEN a ELSE b

CalledType == IF call = "integer_property" THEN "Integer" ELSE "Long"

CalledClass == IF call = "integer_property" THEN "IntegerProperty" ELSE "LongProperty"

(* The header is well formed and names the type of the parser called. *)
HeaderOk == header.ok /\ header.ty = CalledType

RECURSIVE GoodPrefix(_)
(* The number of leading clauses that are clauses of one of the three kinds. *)
GoodPrefix(cs) ==
    IF cs = <<>> \/ Head(cs).kind = "bad" THEN 0 ELSE 1 + GoodPrefix(Tail(cs))

KindAt(cs, k) == {i \in DOMAIN cs : cs[i].kind = k}

Last(S) == CHOOSE i \in S : \A j \in S : j <= i

(* The record the clauses cs describe, read off what was written. *)
WrittenDefault(cs) ==
    IF KindAt(cs, "default") = {} THEN None ELSE cs[Last(KindAt(cs, "default"))].value

WrittenRange(cs) ==
    IF KindAt(cs, "range") = {} THEN None
    ELSE Some([lower |-> cs[Last(KindAt(cs, "range"))].lower,
               upper |-> cs[Last(KindAt(cs, "range"))].upper])

WrittenOptional(cs) == KindAt(cs, "optional") # {}

Applied(prop, cs) ==
    /\ prop.default_value = WrittenDefault(cs)
    /\ prop.domain_validator = WrittenRange(cs)
    /\ prop.is_optional = WrittenOptional(cs)

(* ------------------------------- C1 ------------------------------------ *)

(* C1: after a valid header followed by four or more valid meta-clauses,  *)
(* integer_property and long_property consume exactly the first three:    *)
(* the record is what those three describe, and the remainder is the text *)
(* of the fourth clause and of everything after it, leading whitespace    *)
(* included.                                                              *)
C1_FirstThreeOnly ==
    (pc = "parsed" /\ HeaderOk /\ Len(clauses) >= 4 /\ GoodPrefix(clauses) >= 4)
    => /\ result.ok
       /\ result.rest = Flatten(SubSeq(clauses, 4, Len(clauses)))
       /\ Applied(result.val, SubSeq(clauses, 1, 3))

C1_Witness ==
    /\ pc = "parsed" /\ call = "long_property" /\ HeaderOk
    /\ Len(clauses) = 4 /\ GoodPrefix(clauses) = 4
    /\ clauses[4].kind = "default"
    /\ result.ok /\ result.val.default_value = None
    /\ result.rest = clauses[4].text

(* ------------------------------- C2 ------------------------------------ *)

(* The clauses the dispatcher consumes: the leading clauses of the three  *)
(* kinds, three at most.                                                  *)
Consumed == SubSeq(clauses, 1, Min(GoodPrefix(clauses), 3))

SameKindTwice(cs) == \E i, j \in DOMAIN cs : i < j /\ cs[i].kind = cs[j].kind

(* C2: when two consumed meta-clauses are of the same kind the parse      *)
(* succeeds and the later one wins: default_value is the value of the     *)
(* last default clause, domain_validator the bounds of the last range     *)
(* clause, is_optional stays true; a clause of another kind in between or *)
(* after resets none of them.                                             *)
C2_LastWriteWins ==
    (pc = "parsed" /\ HeaderOk /\ SameKindTwice(Consumed))
    => /\ result.ok
       /\ \A j \in DOMAIN Consumed :
            (\A k \in DOMAIN Consumed : k > j => Consumed[k].kind # Consumed[j].kind)
            => /\ Consumed[j].kind = "default"
                    => result.val.default_value = Consumed[j].value
               /\ Consumed[j].kind = "range"
                    => result.val.domain_validator =
                         Some([lower |-> Consumed[j].lower, upper |-> Consumed[j].upper])
               /\ Consumed[j].kind = "optional" => result.val.is_optional

C2_Witness ==
    /\ pc = "parsed" /\ call = "integer_property" /\ HeaderOk
    /\ Len(clauses) = 3
    /\ clauses[1].kind = "default" /\ clauses[2].kind = "optional"
    /\ clauses[3].kind = "default" /\ clauses[1].value # clauses[3].value
    /\ result.ok
    /\ result.val.default_value = clauses[3].value
    /\ result.val.is_optional

(* ------------------------------- C3 ------------------------------------ *)

Orderings(n) == {f \in [1..n -> 1..n] : \A i, j \in 1..n : f[i] = f[j] => i = j}

Reordered(cs, f) == [i \in DOMAIN cs |-> cs[f[i]]]

Parse(input) ==
    IF call = "integer_property" THEN integer_property(input) ELSE long_property(input)

DistinctKinds(cs) ==
    /\ \A i \in DOMAIN cs : cs[i].kind # "bad"
    /\ \A i, j \in DOMAIN cs : cs[i].kind = cs[j].kind => i = j

(* C3: for up to three meta-clauses of pairwise distinct kinds after one  *)
(* header, every ordering of the clauses parses to the same record and    *)
(* leaves an empty remainder.                                             *)
C3_OrderIndependent ==
    (pc = "parsed" /\ HeaderOk /\ Len(clauses) <= 3 /\ DistinctKinds(clauses))
    => /\ result.ok /\ result.rest = <<>>
       /\ \A f \in Orderings(Len(clauses)) :
            LET other == Parse(header.text \o Flatten(Reordered(clauses, f)))
            IN  other.ok /\ other.rest = <<>> /\ other.val = result.val

C3_Witness ==
    /\ pc = "parsed" /\ call = "long_property" /\ HeaderOk
    /\ Len(clauses) = 3 /\ DistinctKinds(clauses)
    /\ clauses[1].kind = "optional" /\ clauses[2].kind = "default"
    /\ result.ok /\ result.rest = <<>>
    /\ result.val = long_property(header.text \o clauses[3].text \o clauses[2].text
                                               \o clauses[1].text).val

(* ------------------------------- C4 ------------------------------------ *)

(* C4: when the header parses and the text at a position where the        *)
(* dispatcher looks for a clause (the first, second or third) is none of  *)
(* the three clause forms, the parse still succeeds, the remainder is the *)
(* input from the whitespace before that text to the end, the clauses     *)
(* before it are applied and none after it is, valid or not.              *)
C4_StopsAtMismatch ==
    (pc = "parsed" /\ HeaderOk /\ GoodPrefix(clauses) < Min(Len(clauses), 3))
    => /\ result.ok
       /\ result.rest = Flatten(SubSeq(clauses, GoodPrefix(clauses) + 1, Len(clauses)))
       /\ Applied(result.val, SubSeq(clauses, 1, GoodPrefix(clauses)))

C4_Witness ==
    /\ pc = "parsed" /\ call = "long_property" /\ HeaderOk
    /\ Len(clauses) = 3
    /\ clauses[1].kind = "optional" /\ clauses[2].kind = "bad" /\ clauses[3].kind = "range"
    /\ result.ok
    /\ result.val.is_optional /\ result.val.domain_validator = None
    /\ result.rest = clauses[2].text \o clauses[3].text

(* ------------------------------- C5 ------------------------------------ *)

(* C5: a valid header with no meta-clause gives is_optional = false,      *)
(* default_value = None, domain_validator = None, the class tag of the    *)
(* parser and an empty remainder; and after any clauses, a field differs  *)
(* from that default only if a clause of its kind was consumed.           *)
C5_Defaults ==
    (pc = "parsed" /\ HeaderOk)
    => /\ result.ok
       /\ result.val.class = CalledClass
       /\ clauses = <<>> =>
            /\ result.rest = <<>>
            /\ ~result.val.is_optional
            /\ result.val.default_value = None
            /\ result.val.domain_validator = None
       /\ result.val.is_optional => KindAt(Consumed, "optional") # {}
       /\ result.val.default_value # None => KindAt(Consumed, "default") # {}
       /\ result.val.domain_validator # None => KindAt(Consumed, "range") # {}

C5_Witness ==
    /\ pc = "parsed" /\ call = "integer_property" /\ HeaderOk
    /\ clauses = <<>>
    /\ result = [ok |-> TRUE, rest |-> <<>>,
                 val |-> [class |-> "IntegerProperty", name |-> header.name,
                          default_value |-> None, domain_validator |-> None,
                          is_optional |-> FALSE, is_array |-> header.is_array]]

(* ------------------------------- C6 ------------------------------------ *)

(* C6: name and is_array come from the header alone: is_array is true     *)
(* exactly when a bracket pair follows the type keyword, name is the      *)
(* header's identifier, and no number or order of meta-clauses changes    *)
(* name, is_array or the class tag.                                       *)
C6_HeaderFields ==
    (pc = "parsed" /\ HeaderOk)
    => /\ result.ok
       /\ result.val.name = header.name
       /\ result.val.is_array = header.is_array
       /\ result.val.class = CalledClass
       /\ result.val.name = Parse(header.text).val.name
       /\ result.val.is_array = Parse(header.text).val.is_array

C6_Witness ==
    /\ pc = "parsed" /\ call = "integer_property" /\ HeaderOk
    /\ header.is_array
    /\ Len(clauses) = 3 /\ clauses[1].kind = "optional" /\ clauses[3].kind = "range"
    /\ result.ok /\ result.val.is_array /\ result.val.is_optional
    /\ result.val.name = header.name

(* ------------------------------- C7 ------------------------------------ *)

Shown(b) == (CHOOSE c \in LongBoundCases : c.b = b).shown

(* C7: the string form of a domain validator, of either width, is         *)
(* "[L, U]" with both bounds, "[, U]" with the upper only, "[L,]" with    *)
(* the lower only and "" with neither, L and U in decimal; the two widths *)
(* give the same string for the same bounds.                              *)
C7_StringForm ==
    pc = "formatted"
    => LET lo == result.val.lower
           hi == result.val.upper
       IN  /\ (lo # None /\ hi # None)
                => text = <<"[">> \o Shown(lo) \o <<",", " ">> \o Shown(hi) \o <<"]">>
           /\ (lo = None /\ hi # None) => text = <<"[", ",", " ">> \o Shown(hi) \o <<"]">>
           /\ (lo # None /\ hi = None) => text = <<"[">> \o Shown(lo) \o <<",", "]">>
           /\ (lo = None /\ hi = None) => text = <<>>
           /\ (lo \in Bounds /\ hi \in Bounds)
                => String_from_IntegerDomainValidator(result.val)
                     = String_from_LongDomainValidator(result.val)

C7_Witness ==
    /\ pc = "formatted" /\ call = "String::from(&IntegerDomainValidator)"
    /\ result.val.lower = Some(Num(TRUE, <<4, 2>>)) /\ result.val.upper = None
    /\ text = <<"[", "-", "4", "2", ",", "]">>

(* ------------------------------- C8 ------------------------------------ *)

Keys(j) == {j[i][1] : i \in DOMAIN j}

Field(j, k) == j[CHOOSE i \in DOMAIN j : j[i][1] = k][2]

(* C8: in the serialized projection of a parsed property, "default" is    *)
(* present exactly when a default clause was consumed and "range" exactly *)
(* when a range clause was consumed, then holding its bracket string;     *)
(* "$class", "name", "isOptional" and "isArray" are always present.       *)
C8_Projection ==
    pc = "serialized"
    => /\ {"$class", "name", "isOptional", "isArray"} \subseteq Keys(json)
       /\ "default" \in Keys(json) <=> KindAt(Consumed, "default") # {}
       /\ "range" \in Keys(json) <=> KindAt(Consumed, "range") # {}
       /\ "range" \in Keys(json)
            => Field(json, "range") = Consumed[Last(KindAt(Consumed, "range"))].shown

C8_Witness ==
    /\ pc = "serialized" /\ call = "long_property"
    /\ Len(clauses) = 2 /\ clauses[1].kind = "range" /\ clauses[2].kind = "optional"
    /\ Keys(json) = {"$class", "name", "isOptional", "isArray", "range"}
    /\ Field(json, "range") = clauses[1].shown
    /\ Field(json, "isOptional")

(* ------------------------------- C9 ------------------------------------ *)

(* The two declarations name different namespaces: another qualified name *)
(* or another version.                                                    *)
DifferentNamespaces(d, e) == d.name # e.name \/ d.ver # e.ver

(* C9: the Model a successful top-level parse returns holds the Namespace *)
(* declared in its input, so two successful parses of inputs declaring    *)
(* different namespaces return different Models.                          *)
C9_ModelHoldsNamespace ==
    \A i, j \in DOMAIN parses :
        (/\ parses[i].result.ok
         /\ parses[j].result.ok
         /\ DifferentNamespaces(parses[i].decl, parses[j].decl))
        => parses[i].result.val # parses[j].result.val

(* ------------------------------- C10 ----------------------------------- *)

(* The version parser run on the text written after the '@' alone. *)
VersionOf(suffix) == semver(ConcertoParser_parse("SemVer", suffix).pairs[1])

(* C10: the Namespace the namespace parser builds has version = Some(v)   *)
(* exactly when the declaration carries an '@' version suffix, v being    *)
(* what the version parser gives for that suffix, and version = None      *)
(* otherwise; its name is the dotted qualified name alone, without the    *)
(* keyword, the whitespace or the suffix.                                 *)
C10_NamespaceFields ==
    pc = "namespace"
    => /\ result.val.name = decl.name
       /\ decl.ver = None <=> result.val.version = None
       /\ decl.ver # None => result.val.version = Some(VersionOf(decl.ver[1].text))

C10_Witness ==
    /\ pc = "namespace"
    /\ decl.ver # None /\ decl.ver[1].text = <<"1", "2", ".", "1", "3", "+", "a">>
    /\ result.val.name = <<"c", "o", "m", ".", "e", "x", "a", "m", "p", "l", "e", ".", "f", "o", "o">>
    /\ result.val.version # None
    /\ result.val.version[1].minor = N2(1, 3)
    /\ result.val.version[1].build = <<"a">>

(* ------------------------------- C11 ----------------------------------- *)

Fits(n) == MagLeq(n.mag, U32_MAX)

AllFit(v) == Fits(v.major) /\ Fits(v.minor) /\ Fits(v.patch)

(* The version as its author wrote it. *)
WrittenVersion(v) ==
    [major |-> v.major, minor |-> v.minor, patch |-> v.patch,
     prerelease |-> v.prerelease, build |-> v.build]

C12_AllOrNothing ==
    \A i \in DOMAIN parses :
        ~parses[i].decl.ok
        => ~parses[i].result.ok /\ "val" \notin DOMAIN parses[i].result

C12_Witness ==
    /\ Len(parses) = 2
    /\ parses[1].decl.text = <<"n", "a", "m", "e", "s", "p", "a", "c", "e", " ", "a", ".">>
    /\ ~parses[1].result.ok
    /\ parses[2].decl.text = <<"n", "a", "m", "e", "s", "p", "a", "c", "e", " ", "a">>
    /\ parses[2].result.ok /\ parses[2].result.val = Model_default

(* ------------------------------- C13 ----------------------------------- *)

(* What a written component is stored as: itself within 32 bits, else 0. *)
Stored(n) == IF Fits(n) THEN n ELSE Num(FALSE, <<0>>)

(* C13: a version whose numeric component is accepted by the grammar and  *)
(* does not fit an unsigned 32-bit integer is still parsed: that          *)
(* component is stored as 0 and the other components, prerelease and      *)
(* build keep the values written for them.                                *)
C13_OverflowIsZero ==
    (pc = "semver" /\ ~AllFit(decl.ver[1]))
    => /\ result.ok
       /\ result.val = [major      |-> Stored(decl.ver[1].major),
                        minor      |-> Stored(decl.ver[1].minor),
                        patch      |-> Stored(decl.ver[1].patch),
                        prerelease |-> decl.ver[1].prerelease,
                        build      |-> decl.ver[1].build]

C13_Witness ==
    /\ pc = "semver" /\ decl.text = <<"4", "2", "9", "4", "9", "6", "7", "2", "9", "6", ".", "1", ".", "4", "2", "9", "4", "9", "6", "7", "2", "9", "5", "-", "p", "r", "e", "1", "2", "3", "+", "a">>
    /\ result.ok
    /\ result.val = [major |-> Num(FALSE, <<0>>), minor |-> N1(1),
                     patch |-> Num(FALSE, U32_MAX),
                     prerelease |-> <<"p", "r", "e", "1", "2", "3">>, build |-> <<"a">>]

(* ------------------------------- C14 ----------------------------------- *)

In32(n) == IF n.neg THEN MagLeq(n.mag, I32_MIN_MAG) ELSE MagLeq(n.mag, I32_MAX)

(* Every numeric literal of the clause fits a signed 32-bit integer. *)
ClauseFits(c) ==
    /\ c.value = None \/ In32(c.value[1])
    /\ c.lower = None \/ In32(c.lower[1])
    /\ c.upper = None \/ In32(c.upper[1])

KeywordAt(txt, kw) == CHOOSE i \in 1..Len(txt) : SubSeq(txt, i, i + Len(kw) - 1) = kw

(* The header h written with the type keyword of ty. *)
Retyped(h, ty) ==
    SubSeq(h.text, 1, KeywordAt(h.text, TypeKeyword(h.ty)) - 1)
    \o TypeKeyword(ty)
    \o SubSeq(h.text, KeywordAt(h.text, TypeKeyword(h.ty)) + Len(TypeKeyword(h.ty)),
              Len(h.text))

AsInteger == integer_property(Retyped(header, IntegerPropertyType) \o Flatten(clauses))

AsLong == long_property(Retyped(header, LongPropertyType) \o Flatten(clauses))

(* C14: for a declaration whose numeric literals all fit in 32 bits, the  *)
(* parse by integer_property of the declaration written with 'Integer'    *)
(* and the parse by long_property of it written with 'Long' both succeed  *)
(* or both fail, and on success leave the same remainder and give records *)
(* equal in name, is_array, is_optional, default_value and the bounds of  *)
(* domain_validator.                                                      *)
C14_SameParser ==
    (pc = "parsed" /\ header.ty = CalledType
                   /\ \A i \in DOMAIN clauses : ClauseFits(clauses[i]))
    => /\ result = IF call = "integer_property" THEN AsInteger ELSE AsLong
       /\ AsInteger.ok = AsLong.ok
       /\ AsInteger.ok
            => /\ AsInteger.rest = AsLong.rest
               /\ AsInteger.val.name = AsLong.val.name
               /\ AsInteger.val.is_array = AsLong.val.is_array
               /\ AsInteger.val.is_optional = AsLong.val.is_optional
               /\ AsInteger.val.default_value = AsLong.val.default_value
               /\ AsInteger.val.domain_validator = AsLong.val.domain_validator

C14_Witness ==
    /\ pc = "parsed" /\ call = "integer_property" /\ HeaderOk
    /\ Len(clauses) = 3
    /\ clauses[1].text = <<" ", "r", "a", "n", "g", "e", "=", "[", "-", "2", "1", "4", "7", "4", "8", "3", "6", "4", "8", ",", "2", "1", "4", "7", "4", "8", "3", "6", "4", "7", "]">>
    /\ clauses[2].text = <<" ", "d", "e", "f", "a", "u", "l", "t", "=", "2", "1", "4", "7", "4", "8", "3", "6", "4", "7">>
    /\ clauses[3].kind = "bad"
    /\ result.ok /\ result.rest = clauses[3].text
    /\ result.val.default_value = Some(I32Max)
    /\ result.val.domain_validator = Some([lower |-> Some(I32Min), upper |-> Some(I32Max)])
    /\ AsLong.val.default_value = Some(I32Max)

(* ------------------------------- C15 ----------------------------------- *)

(* C15: no record integer_property or long_property produces has a        *)
(* domain_validator that is present with neither bound: whenever it is    *)
(* Some, lower or upper is Some, and the serialized range of a parsed     *)
(* property is never the empty string.                                    *)
C15_NoEmptyRange ==
    /\ (pc \in {"parsed", "serialized"} /\ result.ok
                                         /\ result.val.domain_validator # None)
       => \/ result.val.domain_validator[1].lower # None
          \/ result.val.domain_validator[1].upper # None
    /\ (pc = "serialized" /\ "range" \in Keys(json)) => Field(json, "range") # <<>>

====
